---- MODULE Spec2Model ----
(***************************************************************************)
(* Model of the Puppet provisioner (provisioner/puppet/provisioner.go):    *)
(* Prepare, Provision, UploadLocalDirectory, CreateRemoteDirectory,        *)
(* InstallPuppet and executeCommand, together with the goroutines that     *)
(* executeCommand starts (the two iochan.DelimReader line readers and the  *)
(* exit waiter) and the remote process behind packer.Communicator.         *)
(*                                                                         *)
(* Strings are sequences of one-character strings, paths are sequences of  *)
(* path segments, and an error value is the sequence of the parts of its   *)
(* formatted message (nil is the empty sequence).                          *)
(***************************************************************************)
EXTENDS Integers, Sequences, FiniteSets, TLC

VARIABLES
    pc,         \* position of the sequencing flow (the goroutine running Prepare/Provision/executeCommand)
    caller,     \* which call site the running executeCommand / CreateRemoteDirectory returns to
    ret,        \* error value returned by the callee that last returned
    config,     \* Provisioner.config
    modIdx,     \* index of the module path Provision is uploading
    todo,       \* pending filepath.Walk visits of the running UploadLocalDirectory
    local,      \* every call on the local filesystem made by the walk, in order
    cmdline,    \* RemoteCmd.Command of the command being run
    proc,       \* the remote process: "none", "running", "exited"
    procKind,   \* "exec" (stdout/stderr are pipes) or "mkdir" (stdout is a bytes.Buffer)
    exitStatus, \* RemoteCmd.ExitStatus
    written,    \* per stream, the chunks the remote process has written so far
    pipe,       \* per stream, the io.Pipe write in progress (at most one)
    wclosed,    \* per stream, whether the pipe's write end is closed
    rpc,        \* per stream, position of the DelimReader goroutine
    rbuf,       \* per stream, bytes held by the DelimReader's bufio.Reader
    rline,      \* per stream, the line the DelimReader is sending
    reof,       \* per stream, whether ReadString returned an error with that line
    chClosed,   \* per stream, whether the line channel is closed
    wpc,        \* position of the exit-waiter goroutine
    exitChan,   \* the buffered exit channel (capacity 1)
    said,       \* every Ui.Say call of the run, in order
    sink,       \* every Ui.Message call of the running executeCommand, in order
    faults,     \* failures so far that the sequencer survives (see MaxFaults)
    dlog,       \* every log.Printf record, in order
    remote,     \* every event on the packer.Communicator, in order
    cmdCalls    \* the calls made on the RemoteCmd of the running call, in order

vars == <<pc, caller, ret, config, modIdx, todo, local, cmdline, proc, procKind,
          exitStatus, written, pipe, wclosed, rpc, rbuf, rline, reof,
          chClosed, wpc, exitChan, said, sink, faults, dlog, remote, cmdCalls>>

seqVars  == <<config, modIdx, todo, local>>
procVars == <<proc, procKind, exitStatus, written, pipe>>
readVars == <<rpc, rbuf, rline, reof, chClosed>>
waitVars == <<wpc, exitChan, wclosed>>

----------------------------------------------------------------------------
(* Bounds *)

MaxChunks     == 3   \* writes the remote process makes in all (executeCommand alone)
MaxClosedRecv == 1   \* receives the select loop makes from an already closed line channel
ProvMaxChunks == 1   \* writes in all of a command run on behalf of Provision
MaxPaths      == 2   \* module paths of a configuration
MaxFaults     == 1   \* failures of a run that do not end it (mkdir status, unreadable directory)

----------------------------------------------------------------------------
(* Values *)

Streams == {"stdout", "stderr"}

Delim == "\n"

\* unicode.IsSpace, restricted to the characters the model writes
Whitespace == {" ", "\t", "\n", "\r"}

\* what the remote process may pass to one Write
Chunks == { <<"a", "\n">>, <<" ", "b", " ", "\n", "c", "\n">>, <<"d">> }

ExitCodes == {0, 1, 2}

Nil == <<>>

T(s) == [txt |-> s]
P(p) == [path |-> p]
N(n) == [int |-> n]
X(c) == [ext |-> c]

StartCause  == "start refused"
UploadCause == "upload refused"
OpenCause   == "open: permission denied"
StatCause   == "stat: no such file or directory"
DecodeCause == "decode error"

\* fmt.Errorf(format + "%s", err)
Errorf(prefix, err) == <<T(prefix)>> \o err

\* an error formatted with the verb %d: fmt prints the value by reflection
FmtD(err) == <<T("&{%!d(string=")>> \o err \o <<T(")}")>>

\* the constants of the package
RemoteModulePath   == <<"tmp", "provision", "puppet", "modules">>
DefaultModulesPath == <<"modules">>

\* a command line: the text the templates produce, with or without "sudo "
Command(sudo, prog) == [sudo |-> sudo, prog |-> prog]

InstallProg == "gem install puppet"
RunProg     == "puppet --verbose ???"

\* strings.Join([]string{"mkdir -p", path}, " ")
Mkdir(path) == [mkdir |-> path]

\* the zero value of config
EmptyConfig == [ModulesPaths |-> <<>>, PreventSudo |-> FALSE, SkipInstall |-> FALSE]

----------------------------------------------------------------------------
(* The local filesystem: root/{a.txt, sub/b.txt}, modules/init.pp, the      *)
(* file notes.txt, and nothing at "missing"                                  *)

Dirs  == { <<"root">>, <<"root", "sub">>, <<"modules">> }
Files == { <<"root", "a.txt">>, <<"root", "sub", "b.txt">>,
           <<"modules", "init.pp">>, <<"notes.txt">> }

\* os.Stat / os.Lstat
Kind(p) == IF p \in Dirs THEN "dir" ELSE IF p \in Files THEN "file" ELSE "none"

\* the names in a directory, sorted as filepath.Walk's readDirNames sorts them
Names(p) ==
    IF p = <<"root">> THEN <<"a.txt", "sub">>
    ELSE IF p = <<"root", "sub">> THEN <<"b.txt">>
    ELSE IF p = <<"modules">> THEN <<"init.pp">>
    ELSE <<>>

\* the bytes of a file
Content(p) ==
    IF p = <<"root", "a.txt">> THEN <<"A">>
    ELSE IF p = <<"root", "sub", "b.txt">> THEN <<"B">>
    ELSE IF p = <<"modules", "init.pp">> THEN <<"I">>
    ELSE <<"N">>

\* the module paths a configuration may name
CandidatePaths == { <<"root">>, <<"root", "sub">>, <<"notes.txt">>, <<"missing">> }

----------------------------------------------------------------------------
(* strings.TrimSpace *)

RECURSIVE TrimLeft(_)
TrimLeft(s) ==
    IF s # <<>> /\ Head(s) \in Whitespace THEN TrimLeft(Tail(s)) ELSE s

RECURSIVE TrimRight(_)
TrimRight(s) ==
    IF s # <<>> /\ s[Len(s)] \in Whitespace
    THEN TrimRight(SubSeq(s, 1, Len(s) - 1))
    ELSE s

TrimSpace(s) == TrimRight(TrimLeft(s))

----------------------------------------------------------------------------
(* bufio.Reader.ReadString(delim) *)

\* index of the first delimiter in buf, 0 when there is none
RECURSIVE DelimIndexFrom(_, _)
DelimIndexFrom(buf, i) ==
    IF i > Len(buf) THEN 0
    ELSE IF buf[i] = Delim THEN i
    ELSE DelimIndexFrom(buf, i + 1)

DelimIndex(buf) == DelimIndexFrom(buf, 1)

----------------------------------------------------------------------------
(* Events on the packer.Communicator.  by and idx record the call site of    *)
(* the request: the value of caller and the module path being uploaded.      *)

\* comm.Start(&cmd), and whether it returned nil
Start(cmd, ok) ==
    [op |-> "Start", cmd |-> cmd, ok |-> ok, by |-> caller, idx |-> modIdx]

\* comm.Upload(path, file), and whether it returned nil
Upload(path, data, ok) ==
    [op |-> "Upload", path |-> path, data |-> data, ok |-> ok,
     by |-> "visit", idx |-> modIdx]

\* the started command terminated: cmd.ExitStatus is set, cmd.Wait() returns
Exited(n) == [op |-> "Exit", status |-> n]

\* a call on the local filesystem (os.Lstat, os.Open, reading a directory)
\* made while uploading module path idx, and whether it succeeded
Local(op, path, ok) == [op |-> op, path |-> path, ok |-> ok, idx |-> modIdx]

----------------------------------------------------------------------------
(* The remote process behind packer.Communicator and packer.RemoteCmd *)

WriteBound == IF caller = "none" THEN MaxChunks ELSE ProvMaxChunks

\* what a command may write: any chunk when executeCommand is studied alone,
\* whole lines when it runs on behalf of Provision
WriteChunks == IF caller = "none" THEN Chunks ELSE { <<"a", "\n">> }

\* the process writes c to the stream: an io.Pipe write blocks until read
ProcWrite(s, c) ==
    /\ proc = "running"
    /\ procKind = "exec"
    /\ pipe[s] = <<>>
    /\ Len(written["stdout"]) + Len(written["stderr"]) < WriteBound
    /\ pipe' = [pipe EXCEPT ![s] = <<c>>]
    /\ written' = [written EXCEPT ![s] = Append(@, c)]
    /\ UNCHANGED <<pc, caller, ret, seqVars, cmdline, proc, procKind,
                   exitStatus, readVars, waitVars, said, sink, faults, dlog, remote, cmdCalls>>

\* the process terminates with status n once its writes have returned
ProcExit(n) ==
    /\ proc = "running"
    /\ \A s \in Streams : pipe[s] = <<>>
    /\ IF procKind = "mkdir" /\ n # 0
       THEN faults < MaxFaults /\ faults' = faults + 1
       ELSE UNCHANGED faults
    /\ proc' = "exited"
    /\ exitStatus' = n
    /\ remote' = Append(remote, Exited(n))
    /\ UNCHANGED <<pc, caller, ret, seqVars, cmdline, procKind, written,
                   pipe, readVars, waitVars, said, sink, dlog, cmdCalls>>

----------------------------------------------------------------------------
(* iochan.DelimReader(r, '\n'): the goroutine of one stream *)

\* one iteration of buf.ReadString(delim), up to the send of the line
ReaderRead(s) ==
    /\ rpc[s] = "read"
    /\ IF DelimIndex(rbuf[s]) > 0
       THEN LET i == DelimIndex(rbuf[s]) IN
            /\ rline' = [rline EXCEPT ![s] = SubSeq(rbuf[s], 1, i)]
            /\ rbuf' = [rbuf EXCEPT ![s] = SubSeq(rbuf[s], i + 1, Len(rbuf[s]))]
            /\ rpc' = [rpc EXCEPT ![s] = "send"]
            /\ UNCHANGED <<pipe, reof>>
       ELSE IF pipe[s] # <<>>
       THEN LET avail == rbuf[s] \o pipe[s][1]
                i     == DelimIndex(avail) IN
            /\ pipe' = [pipe EXCEPT ![s] = <<>>]
            /\ IF i > 0
               THEN /\ rline' = [rline EXCEPT ![s] = SubSeq(avail, 1, i)]
                    /\ rbuf' = [rbuf EXCEPT ![s] = SubSeq(avail, i + 1, Len(avail))]
                    /\ rpc' = [rpc EXCEPT ![s] = "send"]
               ELSE /\ rbuf' = [rbuf EXCEPT ![s] = avail]
                    /\ UNCHANGED <<rline, rpc>>
            /\ UNCHANGED reof
       ELSE /\ wclosed[s]
            /\ UNCHANGED pipe
            /\ IF rbuf[s] # <<>>
               THEN /\ rline' = [rline EXCEPT ![s] = rbuf[s]]
                    /\ rbuf' = [rbuf EXCEPT ![s] = <<>>]
                    /\ reof' = [reof EXCEPT ![s] = TRUE]
                    /\ rpc' = [rpc EXCEPT ![s] = "send"]
               ELSE /\ rpc' = [rpc EXCEPT ![s] = "close"]
                    /\ UNCHANGED <<rline, rbuf, reof>>
    /\ UNCHANGED <<pc, caller, ret, seqVars, cmdline, proc, procKind,
                   exitStatus, written, chClosed, waitVars, said, sink, faults, dlog, remote, cmdCalls>>

\* close(ch) after the loop
ReaderClose(s) ==
    /\ rpc[s] = "close"
    /\ rpc' = [rpc EXCEPT ![s] = "done"]
    /\ chClosed' = [chClosed EXCEPT ![s] = TRUE]
    /\ UNCHANGED <<pc, caller, ret, seqVars, cmdline, procVars, rbuf, rline,
                   reof, waitVars, said, sink, faults, dlog, remote, cmdCalls>>

\* the reader's state once its blocked send `ch <- line` has been received
AfterSend(s) == [rpc EXCEPT ![s] = IF reof[s] THEN "close" ELSE "read"]

----------------------------------------------------------------------------
(* The exit-waiter goroutine of executeCommand *)

\* the waiter without its cmd.Wait() call
WaiterWait_SkipWait ==
    /\ wpc = "wait"
    /\ wpc' = "send"
    /\ UNCHANGED <<pc, caller, ret, seqVars, cmdline, procVars, readVars,
                   exitChan, wclosed, said, sink, faults, dlog, remote, cmdCalls>>

\* cmd.Wait() returns
WaiterWait ==
    /\ wpc = "wait"
    /\ proc = "exited"
    /\ cmdCalls' = Append(cmdCalls, "Wait")
    /\ wpc' = "send"
    /\ UNCHANGED <<pc, caller, ret, seqVars, cmdline, procVars, readVars,
                   exitChan, wclosed, said, sink, faults, dlog, remote>>

\* exitChan <- cmd.ExitStatus
WaiterSend ==
    /\ wpc = "send"
    /\ Len(exitChan) < 1
    /\ exitChan' = Append(exitChan, exitStatus)
    /\ cmdCalls' = Append(cmdCalls, "ExitStatus")
    /\ wpc' = "closeErr"
    /\ UNCHANGED <<pc, caller, ret, seqVars, cmdline, procVars, readVars,
                   wclosed, said, sink, faults, dlog, remote>>

\* deferred stderr_w.Close() (deferred last, so run first)
WaiterCloseErr ==
    /\ wpc = "closeErr"
    /\ wclosed' = [wclosed EXCEPT !["stderr"] = TRUE]
    /\ wpc' = "closeOut"
    /\ UNCHANGED <<pc, caller, ret, seqVars, cmdline, procVars, readVars,
                   exitChan, said, sink, faults, dlog, remote, cmdCalls>>

\* WaiterCloseOut with the deferred stdout_w.Close() left out
WaiterCloseOut_NoClose ==
    /\ wpc = "closeOut"
    /\ wpc' = "done"
    /\ UNCHANGED <<pc, caller, ret, seqVars, cmdline, procVars, readVars,
                   exitChan, wclosed, said, sink, faults, dlog, remote, cmdCalls>>

\* deferred stdout_w.Close()
WaiterCloseOut ==
    /\ wpc = "closeOut"
    /\ wclosed' = [wclosed EXCEPT !["stdout"] = TRUE]
    /\ wpc' = "done"
    /\ UNCHANGED <<pc, caller, ret, seqVars, cmdline, procVars, readVars,
                   exitChan, said, sink, faults, dlog, remote, cmdCalls>>

----------------------------------------------------------------------------
(* executeCommand(command, comm) *)

\* Ui.Message(text); src and ok record which channel the text was received
\* from and whether the receive carried a value (ok = FALSE: closed channel)
Message(text, s, ok) == [text |-> text, src |-> s, ok |-> ok]

\* the pipes, channels and goroutines of a call before it has started any
FreshCall ==
    /\ written = [s \in Streams |-> <<>>]
    /\ pipe = [s \in Streams |-> <<>>]
    /\ wclosed = [s \in Streams |-> FALSE]
    /\ rpc = [s \in Streams |-> "idle"]
    /\ rbuf = [s \in Streams |-> <<>>]
    /\ rline = [s \in Streams |-> <<>>]
    /\ reof = [s \in Streams |-> FALSE]
    /\ chClosed = [s \in Streams |-> FALSE]
    /\ wpc = "idle"
    /\ exitChan = <<>>

\* a call creates its own pipes, channels and goroutines
NewCall ==
    /\ written' = [s \in Streams |-> <<>>]
    /\ pipe' = [s \in Streams |-> <<>>]
    /\ wclosed' = [s \in Streams |-> FALSE]
    /\ rpc' = [s \in Streams |-> "idle"]
    /\ rbuf' = [s \in Streams |-> <<>>]
    /\ rline' = [s \in Streams |-> <<>>]
    /\ reof' = [s \in Streams |-> FALSE]
    /\ chClosed' = [s \in Streams |-> FALSE]
    /\ wpc' = "idle"
    /\ exitChan' = <<>>

\* io.Pipe() twice, the RemoteCmd, log.Printf and comm.Start
ExecStart ==
    /\ pc = "exec_call"
    /\ NewCall
    /\ sink' = <<>>
    /\ dlog' = Append(dlog, [exec |-> cmdline])
    /\ procKind' = "exec"
    /\ exitStatus' = 0
    /\ \/ /\ remote' = Append(remote, Start(cmdline, TRUE))
          /\ cmdCalls' = Append(cmdCalls, "Start")
          /\ proc' = "running"
          /\ pc' = "exec_spawn"
          /\ UNCHANGED ret
       \/ /\ remote' = Append(remote, Start(cmdline, FALSE))
          /\ cmdCalls' = Append(cmdCalls, "StartFailed")
          /\ proc' = "none"
          /\ ret' = Errorf("Failed executing command: ", <<X(StartCause)>>)
          /\ pc' = "exec_ret"
    /\ UNCHANGED <<caller, seqVars, cmdline, said, faults>>

\* make(chan int, 1), the two DelimReader calls and the go statement
ExecSpawn ==
    /\ pc = "exec_spawn"
    /\ rpc' = [s \in Streams |-> "read"]
    /\ wpc' = "wait"
    /\ pc' = "exec_loop"
    /\ UNCHANGED <<caller, ret, seqVars, cmdline, procVars, rbuf, rline,
                   reof, chClosed, exitChan, wclosed, said, sink, faults, dlog, remote, cmdCalls>>

\* number of receives from a closed channel made by the running call
ClosedRecvs == Cardinality({i \in 1..Len(sink) : ~sink[i].ok})

\* select: case output := <-stderrChan / <-stdoutChan
LoopRecv(s) ==
    /\ pc = "exec_loop"
    /\ \/ /\ rpc[s] = "send"
          /\ sink' = Append(sink, Message(TrimSpace(rline[s]), s, TRUE))
          /\ rpc' = AfterSend(s)
       \/ /\ chClosed[s]
          /\ ClosedRecvs < MaxClosedRecv
          /\ sink' = Append(sink, Message(TrimSpace(<<>>), s, FALSE))
          /\ UNCHANGED rpc
    /\ UNCHANGED <<pc, caller, ret, seqVars, cmdline, procVars, rbuf, rline,
                   reof, chClosed, waitVars, said, faults, dlog, remote, cmdCalls>>

\* LoopExit leaving without the two drain loops when the status is 0
LoopExit_NoDrain ==
    /\ pc = "exec_loop"
    /\ exitChan # <<>>
    /\ LET status == Head(exitChan) IN
       /\ exitChan' = Tail(exitChan)
       /\ dlog' = Append(dlog, [exited |-> status])
       /\ IF status # 0
          THEN ret' = <<T("Command exited with non-zero exit status: "),
                        N(status)>>
          ELSE ret' = Nil
       /\ pc' = "exec_ret"
    /\ UNCHANGED <<caller, seqVars, cmdline, procVars, readVars, wpc,
                   wclosed, said, sink, faults, remote, cmdCalls>>

\* LoopExit treating every status but 1 as success
LoopExit_OnlyOne ==
    /\ pc = "exec_loop"
    /\ exitChan # <<>>
    /\ LET status == Head(exitChan) IN
       /\ exitChan' = Tail(exitChan)
       /\ dlog' = Append(dlog, [exited |-> status])
       /\ IF status = 1
          THEN /\ ret' = <<T("Command exited with non-zero exit status: "),
                           N(status)>>
               /\ pc' = "exec_ret"
          ELSE /\ pc' = "exec_drainOut"
               /\ UNCHANGED ret
    /\ UNCHANGED <<caller, seqVars, cmdline, procVars, readVars, wpc,
                   wclosed, said, sink, faults, remote, cmdCalls>>

\* select: case exitStatus := <-exitChan
LoopExit ==
    /\ pc = "exec_loop"
    /\ exitChan # <<>>
    /\ LET status == Head(exitChan) IN
       /\ exitChan' = Tail(exitChan)
       /\ dlog' = Append(dlog, [exited |-> status])
       /\ IF status # 0
          THEN /\ ret' = <<T("Command exited with non-zero exit status: "),
                           N(status)>>
               /\ pc' = "exec_ret"
          ELSE /\ pc' = "exec_drainOut"
               /\ UNCHANGED ret
    /\ UNCHANGED <<caller, seqVars, cmdline, procVars, readVars, wpc,
                   wclosed, said, sink, faults, remote, cmdCalls>>

\* for output := range stdoutChan { Ui.Message(output) }
DrainStdout ==
    /\ pc = "exec_drainOut"
    /\ \/ /\ rpc["stdout"] = "send"
          /\ sink' = Append(sink, Message(rline["stdout"], "stdout", TRUE))
          /\ rpc' = AfterSend("stdout")
          /\ UNCHANGED pc
       \/ /\ chClosed["stdout"]
          /\ pc' = "exec_drainErr"
          /\ UNCHANGED <<sink, rpc>>
    /\ UNCHANGED <<caller, ret, seqVars, cmdline, procVars, rbuf, rline,
                   reof, chClosed, waitVars, said, faults, dlog, remote, cmdCalls>>

\* for output := range stderrChan { Ui.Message(output) }; return nil
DrainStderr ==
    /\ pc = "exec_drainErr"
    /\ \/ /\ rpc["stderr"] = "send"
          /\ sink' = Append(sink, Message(rline["stderr"], "stderr", TRUE))
          /\ rpc' = AfterSend("stderr")
          /\ UNCHANGED <<pc, ret>>
       \/ /\ chClosed["stderr"]
          /\ pc' = "exec_ret"
          /\ ret' = Nil
          /\ UNCHANGED <<sink, rpc>>
    /\ UNCHANGED <<caller, seqVars, cmdline, procVars, rbuf, rline,
                   reof, chClosed, waitVars, said, faults, dlog, remote, cmdCalls>>

\* the goroutines and the remote process of a running executeCommand
ExecBackground ==
    \/ \E s \in Streams, c \in WriteChunks : ProcWrite(s, c)
    \/ \E n \in ExitCodes : ProcExit(n)
    \/ \E s \in Streams : ReaderRead(s)
    \/ \E s \in Streams : ReaderClose(s)
    \/ WaiterWait
    \/ WaiterSend
    \/ WaiterCloseErr
    \/ WaiterCloseOut

ExecMain ==
    \/ ExecStart
    \/ ExecSpawn
    \/ \E s \in Streams : LoopRecv(s)
    \/ LoopExit
    \/ DrainStdout
    \/ DrainStderr

----------------------------------------------------------------------------
(* Provisioner.Prepare(raws) *)

\* the lists of at most MaxPaths candidate paths
PathLists == UNION { [1..n -> CandidatePaths] : n \in 0..MaxPaths }

\* fmt.Errorf("Bad module path '%s': %s", path, err)
BadPath(path) ==
    <<T("Bad module path '"), P(path), T("': "),
      IF Kind(path) = "none" THEN X(StatCause) ELSE T("%!s(<nil>)")>>

\* StatLoop leaving the loop at the first bad path
RECURSIVE StatLoop_FirstOnly(_, _)
StatLoop_FirstOnly(paths, errs) ==
    IF paths = <<>> THEN errs
    ELSE IF Kind(Head(paths)) # "dir"
    THEN Append(errs, BadPath(Head(paths)))
    ELSE StatLoop_FirstOnly(Tail(paths), errs)

\* StatLoop testing only err != nil, not IsDir()
RECURSIVE StatLoop_NoIsDir(_, _)
StatLoop_NoIsDir(paths, errs) ==
    IF paths = <<>> THEN errs
    ELSE StatLoop_NoIsDir(Tail(paths),
                          IF Kind(Head(paths)) = "none"
                          THEN Append(errs, BadPath(Head(paths)))
                          ELSE errs)

\* the loop over p.config.ModulesPaths: errs grows by one per bad path
RECURSIVE StatLoop(_, _)
StatLoop(paths, errs) ==
    IF paths = <<>> THEN errs
    ELSE StatLoop(Tail(paths),
                  IF Kind(Head(paths)) # "dir"
                  THEN Append(errs, BadPath(Head(paths)))
                  ELSE errs)

\* &packer.MultiError{errs}
MultiError(errs) == <<[multi |-> errs]>>

\* Prepare when mapstructure.Decode fails
PrepareDecodeError ==
    /\ pc = "prepare"
    /\ ret' = <<X(DecodeCause)>>
    /\ pc' = "prepared"
    /\ UNCHANGED <<caller, seqVars, cmdline, procVars, readVars, waitVars,
                   said, sink, faults, dlog, remote, cmdCalls>>

\* Prepare of a decoded option payload; given = FALSE: no modules_paths key
PrepareConfig(given, paths, preventSudo, skipInstall) ==
    /\ pc = "prepare"
    /\ LET modulesPaths == IF given THEN paths ELSE <<DefaultModulesPath>>
           errs         == StatLoop(modulesPaths, <<>>)
       IN  /\ config' = [ModulesPaths |-> modulesPaths,
                         PreventSudo  |-> preventSudo,
                         SkipInstall  |-> skipInstall]
           /\ ret' = IF Len(errs) > 0 THEN MultiError(errs) ELSE Nil
    /\ pc' = "prepared"
    /\ UNCHANGED <<caller, modIdx, todo, local, cmdline, procVars, readVars,
                   waitVars, said, sink, faults, dlog, remote, cmdCalls>>

Prepare ==
    \/ PrepareDecodeError
    \/ \E paths \in PathLists, preventSudo \in BOOLEAN, skipInstall \in BOOLEAN :
          PrepareConfig(TRUE, paths, preventSudo, skipInstall)
    \/ \E preventSudo \in BOOLEAN, skipInstall \in BOOLEAN :
          PrepareConfig(FALSE, <<>>, preventSudo, skipInstall)

----------------------------------------------------------------------------
(* The host: it serves the provisioner and calls Provision only on a       *)
(* provisioner whose Prepare returned nil                                   *)

HostProvision ==
    /\ pc = "prepared"
    /\ ret = Nil
    /\ pc' = "prov_install"
    /\ UNCHANGED <<caller, ret, seqVars, cmdline, procVars, readVars,
                   waitVars, said, sink, faults, dlog, remote, cmdCalls>>

----------------------------------------------------------------------------
(* CreateRemoteDirectory(path, comm); the path is in cmdline *)

\* log.Printf, the RemoteCmd and comm.Start
MkdirStart ==
    /\ pc = "mkdir_call"
    /\ dlog' = Append(dlog, [creating |-> cmdline.mkdir])
    /\ procKind' = "mkdir"
    /\ exitStatus' = 0
    /\ \/ /\ remote' = Append(remote, Start(cmdline, TRUE))
          /\ cmdCalls' = Append(cmdCalls, "Start")
          /\ proc' = "running"
          /\ pc' = "mkdir_wait"
          /\ UNCHANGED ret
       \/ /\ remote' = Append(remote, Start(cmdline, FALSE))
          /\ cmdCalls' = Append(cmdCalls, "StartFailed")
          /\ proc' = "none"
          /\ ret' = <<T("Unable to create remote directory "),
                      P(cmdline.mkdir), T(": ")>> \o FmtD(<<X(StartCause)>>)
          /\ pc' = "mkdir_ret"
    /\ UNCHANGED <<caller, seqVars, cmdline, written, pipe, readVars,
                   waitVars, said, sink, faults>>

\* MkdirWait returning without waiting for the command
MkdirWait_NoWait ==
    /\ pc = "mkdir_wait"
    /\ ret' = Nil
    /\ pc' = "mkdir_ret"
    /\ UNCHANGED <<caller, seqVars, cmdline, procVars, readVars, waitVars,
                   said, sink, faults, dlog, remote, cmdCalls>>

\* cmd.Wait(); return (the named result err is nil, the status is not read)
MkdirWait ==
    /\ pc = "mkdir_wait"
    /\ proc = "exited"
    /\ cmdCalls' = Append(cmdCalls, "Wait")
    /\ ret' = Nil
    /\ pc' = "mkdir_ret"
    /\ UNCHANGED <<caller, seqVars, cmdline, procVars, readVars, waitVars,
                   said, sink, faults, dlog, remote>>

----------------------------------------------------------------------------
(* UploadLocalDirectory(localDir, comm): filepath.Walk and visitPath *)

\* var remotePath = RemoteModulePath + "/" + path
RemotePath(path) == RemoteModulePath \o path

\* the entries filepath.Walk visits after reading the directory at path
Children(path) ==
    [i \in 1..Len(Names(path)) |->
        [path |-> Append(path, Names(path)[i]), again |-> FALSE]]

LocalDir == config.ModulesPaths[modIdx]

\* the error of the walk as UploadLocalDirectory and then Provision return it
UploadError(err) ==
    Errorf("Error uploading modules: ",
           <<T("Error uploading modules "), P(LocalDir), T(": ")>> \o err)

\* filepath.Walk has no entry left: UploadLocalDirectory returns nil
WalkDone ==
    /\ pc = "walk"
    /\ todo = <<>>
    /\ modIdx' = modIdx + 1
    /\ pc' = "prov_upload"
    /\ UNCHANGED <<caller, ret, config, todo, local, cmdline, procVars,
                   readVars, waitVars, said, sink, faults, dlog, remote, cmdCalls>>

\* visitPath of a directory, up to its CreateRemoteDirectory call
VisitDir ==
    /\ pc = "walk"
    /\ todo # <<>>
    /\ Kind(Head(todo).path) = "dir"
    /\ cmdline' = Mkdir(RemotePath(Head(todo).path))
    /\ caller' = "visit"
    /\ cmdCalls' = <<>>
    /\ pc' = "mkdir_call"
    /\ UNCHANGED <<ret, seqVars, procVars, readVars, waitVars, said, sink, faults, dlog, remote>>

\* CreateRemoteDirectory returns to visitPath and visitPath to filepath.Walk,
\* which reads the directory, or has called visitPath again after failing to
\* read it and returns what that second call returned
VisitReturn ==
    /\ pc = "mkdir_ret"
    /\ caller = "visit"
    /\ LET path == Head(todo).path IN
       IF ret # Nil
       THEN /\ ret' = UploadError(ret)
            /\ pc' = "prov_done"
            /\ UNCHANGED <<todo, local, faults>>
       ELSE /\ pc' = "walk"
            /\ UNCHANGED ret
            /\ IF Head(todo).again
               THEN /\ todo' = Tail(todo)
                    /\ UNCHANGED <<local, faults>>
               ELSE \/ /\ local' = Append(local, Local("ReadDir", path, TRUE))
                       /\ todo' = Children(path) \o Tail(todo)
                       /\ UNCHANGED faults
                    \/ /\ faults < MaxFaults
                       /\ faults' = faults + 1
                       /\ local' = Append(local, Local("ReadDir", path, FALSE))
                       /\ todo' = <<[path |-> path, again |-> TRUE]>> \o Tail(todo)
    /\ UNCHANGED <<caller, config, modIdx, cmdline, procVars, readVars,
                   waitVars, said, sink, dlog, remote, cmdCalls>>

\* visitPath of a file: os.Open and comm.Upload
VisitFile ==
    /\ pc = "walk"
    /\ todo # <<>>
    /\ Kind(Head(todo).path) = "file"
    /\ LET path == Head(todo).path IN
       \/ /\ local' = Append(local, Local("Open", path, FALSE))
          /\ ret' = UploadError(Errorf("Error opening file: ", <<X(OpenCause)>>))
          /\ pc' = "prov_done"
          /\ UNCHANGED <<todo, remote>>
       \/ /\ local' = Append(local, Local("Open", path, TRUE))
          /\ remote' = Append(remote, Upload(RemotePath(path), Content(path), FALSE))
          /\ ret' = UploadError(Errorf("Error uploading file: ", <<X(UploadCause)>>))
          /\ pc' = "prov_done"
          /\ UNCHANGED todo
       \/ /\ local' = Append(local, Local("Open", path, TRUE))
          /\ remote' = Append(remote, Upload(RemotePath(path), Content(path), TRUE))
          /\ todo' = Tail(todo)
          /\ UNCHANGED <<pc, ret>>
    /\ UNCHANGED <<caller, config, modIdx, cmdline, procVars, readVars,
                   waitVars, said, sink, faults, dlog, cmdCalls>>

----------------------------------------------------------------------------
(* Provisioner.Provision(ui, comm) and InstallPuppet(preventSudo, comm) *)

\* the install step: skipped, or InstallPuppet up to its executeCommand call
ProvInstall ==
    /\ pc = "prov_install"
    /\ IF ~config.SkipInstall
       THEN /\ said' = Append(said, <<T("Installing Puppet")>>)
            /\ cmdline' = Command(~config.PreventSudo, InstallProg)
            /\ caller' = "install"
            /\ cmdCalls' = <<>>
            /\ pc' = "exec_call"
       ELSE /\ pc' = "prov_stage"
            /\ UNCHANGED <<said, cmdline, caller, cmdCalls>>
    /\ UNCHANGED <<ret, seqVars, procVars, readVars, waitVars, sink, faults, dlog,
                   remote>>

\* executeCommand returns to InstallPuppet, and InstallPuppet to Provision
InstallReturn ==
    /\ pc = "exec_ret"
    /\ caller = "install"
    /\ IF ret # Nil
       THEN /\ ret' = Errorf("Error installing Puppet: ",
                             <<T("Unable to install Puppet: ")>> \o FmtD(ret))
            /\ pc' = "prov_done"
       ELSE /\ pc' = "prov_stage"
            /\ UNCHANGED ret
    /\ UNCHANGED <<caller, seqVars, cmdline, procVars, readVars, waitVars,
                   said, sink, faults, dlog, remote, cmdCalls>>

\* err = CreateRemoteDirectory(RemoteModulePath, comm)
ProvStage ==
    /\ pc = "prov_stage"
    /\ cmdline' = Mkdir(RemoteModulePath)
    /\ caller' = "stage"
    /\ cmdCalls' = <<>>
    /\ pc' = "mkdir_call"
    /\ UNCHANGED <<ret, seqVars, procVars, readVars, waitVars, said, sink, faults, dlog, remote>>

\* CreateRemoteDirectory returns to Provision
StageReturn ==
    /\ pc = "mkdir_ret"
    /\ caller = "stage"
    /\ IF ret # Nil
       THEN /\ ret' = Errorf("Error creating remote staging directory: ", ret)
            /\ pc' = "prov_done"
            /\ UNCHANGED modIdx
       ELSE /\ modIdx' = 1
            /\ pc' = "prov_upload"
            /\ UNCHANGED ret
    /\ UNCHANGED <<caller, config, todo, local, cmdline, procVars, readVars,
                   waitVars, said, sink, faults, dlog, remote, cmdCalls>>

\* one iteration of the loop over ModulesPaths: Ui.Say, then
\* UploadLocalDirectory up to its call of filepath.Walk
ProvUpload ==
    /\ pc = "prov_upload"
    /\ IF modIdx <= Len(config.ModulesPaths)
       THEN LET path == config.ModulesPaths[modIdx] IN
            /\ said' = Append(said, <<T("Copying module path: "), P(path)>>)
            /\ dlog' = Append(dlog, [uploading |-> path])
            /\ todo' = <<[path |-> path, again |-> FALSE]>>
            /\ local' = Append(local, Local("Lstat", path, TRUE))
            /\ pc' = "walk"
       ELSE /\ pc' = "prov_run"
            /\ UNCHANGED <<said, dlog, todo, local>>
    /\ UNCHANGED <<caller, ret, config, modIdx, cmdline, procVars, readVars,
                   waitVars, sink, faults, remote, cmdCalls>>

\* the run step up to its executeCommand call
ProvRun ==
    /\ pc = "prov_run"
    /\ said' = Append(said, <<T("Beginning Puppet run")>>)
    /\ cmdline' = Command(~config.PreventSudo, RunProg)
    /\ caller' = "run"
    /\ cmdCalls' = <<>>
    /\ pc' = "exec_call"
    /\ UNCHANGED <<ret, seqVars, procVars, readVars, waitVars, sink, faults, dlog,
                   remote>>

\* executeCommand returns to Provision, and Provision returns
RunReturn ==
    /\ pc = "exec_ret"
    /\ caller = "run"
    /\ ret' = IF ret # Nil THEN Errorf("Error running Puppet: ", ret) ELSE Nil
    /\ pc' = "prov_done"
    /\ UNCHANGED <<caller, seqVars, cmdline, procVars, readVars, waitVars,
                   said, sink, faults, dlog, remote, cmdCalls>>

----------------------------------------------------------------------------
(* executeCommand on its own *)

InitExec ==
    /\ pc = "exec_call"
    /\ caller = "none"
    /\ ret = Nil
    /\ config = EmptyConfig
    /\ modIdx = 0
    /\ todo = <<>>
    /\ local = <<>>
    /\ cmdline = Command(TRUE, RunProg)
    /\ proc = "none"
    /\ procKind = "exec"
    /\ exitStatus = 0
    /\ FreshCall
    /\ said = <<>>
    /\ sink = <<>>
    /\ faults = 0
    /\ dlog = <<>>
    /\ remote = <<>>
    /\ cmdCalls = <<>>

NextExec == ExecMain \/ ExecBackground

SpecExec == InitExec /\ [][NextExec]_vars

----------------------------------------------------------------------------
(* The provisioner as the host drives it: Prepare, then Provision *)

InitProv ==
    /\ pc = "prepare"
    /\ caller = "host"
    /\ ret = Nil
    /\ config = EmptyConfig
    /\ modIdx = 0
    /\ todo = <<>>
    /\ local = <<>>
    /\ cmdline = Command(FALSE, "")
    /\ proc = "none"
    /\ procKind = "exec"
    /\ exitStatus = 0
    /\ FreshCall
    /\ said = <<>>
    /\ sink = <<>>
    /\ faults = 0
    /\ dlog = <<>>
    /\ remote = <<>>
    /\ cmdCalls = <<>>

Sequencer ==
    \/ Prepare
    \/ HostProvision
    \/ ProvInstall
    \/ InstallReturn
    \/ ProvStage
    \/ StageReturn
    \/ ProvUpload
    \/ WalkDone
    \/ VisitDir
    \/ VisitReturn
    \/ VisitFile
    \/ MkdirStart
    \/ MkdirWait
    \/ ProvRun
    \/ RunReturn

Next == Sequencer \/ ExecMain \/ ExecBackground

Spec == InitProv /\ [][Next]_vars

----------------------------------------------------------------------------
(* What the command wrote and what the sink received *)

RECURSIVE Flatten(_)
Flatten(chunks) ==
    IF chunks = <<>> THEN <<>> ELSE Head(chunks) \o Flatten(Tail(chunks))

\* the lines of a byte stream: each ends with its delimiter, except a last
\* unterminated one
RECURSIVE LinesOf(_)
LinesOf(bytes) ==
    IF bytes = <<>> THEN <<>>
    ELSE LET i == DelimIndex(bytes) IN
         IF i = 0 THEN <<bytes>>
         ELSE <<SubSeq(bytes, 1, i)>> \o LinesOf(SubSeq(bytes, i + 1, Len(bytes)))

WrittenLines(s) == LinesOf(Flatten(written[s]))

IsLineOf(s, m) == m.src = s /\ m.ok

\* the texts the sink was given for the values received from the channel of s
Received(s) ==
    LET ms == SelectSeq(sink, LAMBDA m : IsLineOf(s, m))
    IN  [i \in 1..Len(ms) |-> ms[i].text]

Trimmed(lines) == [i \in 1..Len(lines) |-> TrimSpace(lines[i])]

AllDelivered == \A s \in Streams : Trimmed(Received(s)) = Trimmed(WrittenLines(s))

ExitError(n) == <<T("Command exited with non-zero exit status: "), N(n)>>

StartError == Errorf("Failed executing command: ", <<X(StartCause)>>)

Returned == pc = "exec_ret"
Started  == proc # "none"

----------------------------------------------------------------------------
(* Claims about executeCommand *)

\* C1: when the command started and exited with status 0, executeCommand
\* returns nil and, at the return, the sink has been given every line the
\* command wrote to stdout and every line it wrote to stderr, each stream in
\* the order written, whatever the interleaving of writes and exit.
C1_SuccessDeliversAll ==
    (Returned /\ Started /\ exitStatus = 0) => (ret = Nil /\ AllDelivered)

\* a successful return where both streams carried lines and the last line of
\* each was taken by the drain loops after the exit status was received
C1_Witness ==
    /\ Returned /\ Started /\ exitStatus = 0
    /\ \A s \in Streams :
          /\ WrittenLines(s) # <<>>
          /\ Received(s)[Len(Received(s))] = WrittenLines(s)[Len(WrittenLines(s))]
          /\ TrimSpace(Received(s)[Len(Received(s))]) # Received(s)[Len(Received(s))]

\* C2: when the command exited with a status N other than 0, executeCommand
\* returns the failure carrying N and every line the command wrote has been
\* given to the sink before that return.
C2_FailureDeliversAll ==
    (Returned /\ Started /\ exitStatus # 0) =>
        (ret = ExitError(exitStatus) /\ AllDelivered)

\* C3: the result is nil exactly when the command started and its status is
\* 0, the failure carrying the status when the status is not 0, and the
\* failure carrying the cause when comm.Start failed.
C3_ResultMapping ==
    Returned =>
        ret = IF ~Started THEN StartError
              ELSE IF exitStatus = 0 THEN Nil
              ELSE ExitError(exitStatus)

\* a command that wrote output and exited with status 2 has returned
C3_Witness ==
    /\ Returned /\ Started /\ exitStatus = 2
    /\ ret = ExitError(2)
    /\ written["stdout"] # <<>>

----------------------------------------------------------------------------
(* Reading the event traces *)

\* the requests made on the communicator, without the terminations
Issues == SelectSeq(remote, LAMBDA e : e.op # "Exit")

\* the position of a request's step in the sequence of Provision
Rank(e) ==
    IF e.by = "install" THEN 0
    ELSE IF e.by = "stage" THEN 1
    ELSE IF e.by = "visit" THEN 1 + e.idx
    ELSE 2 + Len(config.ModulesPaths)

\* the remote path a request of the walk is about
EventPath(e) == IF e.op = "Start" THEN e.cmd.mkdir ELSE e.path

IsPrefix(a, b) == Len(a) <= Len(b) /\ SubSeq(b, 1, Len(a)) = a

\* the i-th event reports a failure: a request refused, or a non-zero status
FailedAt(i) ==
    \/ remote[i].op \in {"Start", "Upload"} /\ ~remote[i].ok
    \/ remote[i].op = "Exit" /\ remote[i].status # 0

\* the request the i-th event belongs to
RequestOf(i) == IF remote[i].op = "Exit" THEN remote[i - 1] ELSE remote[i]

\* the error message names the path
Mentions(err, path) ==
    \E j \in 1..Len(err) : "path" \in DOMAIN err[j] /\ err[j].path = path

\* how the failure Provision returns begins for each step
StepText(by) ==
    IF by = "install" THEN "Error installing Puppet: "
    ELSE IF by = "stage" THEN "Error creating remote staging directory: "
    ELSE IF by = "visit" THEN "Error uploading modules: "
    ELSE "Error running Puppet: "

ProvisionReturned == pc = "prov_done"

----------------------------------------------------------------------------
(* Claims about Provision and Prepare *)

\* C4: the remote requests of Provision are issued in the order install
\* (only when skip_install is false), creation of the module root, the
\* uploads of the module paths in configured order, the run command; and a
\* request is never issued before the command started before it has
\* terminated.
C4_StepsInOrder ==
    LET is == Issues
        n  == Len(config.ModulesPaths)
    IN
    /\ \A i \in 1..(Len(remote) - 1) :
          (remote[i].op = "Start" /\ remote[i].ok) => remote[i + 1].op = "Exit"
    /\ \A j \in 1..Len(is) : \A i \in 1..(j - 1) :
          /\ Rank(is[i]) <= Rank(is[j])
          /\ Rank(is[i]) = Rank(is[j]) => is[j].by = "visit"
    /\ is # <<>> => (is[1].by = "install" <=> ~config.SkipInstall)
    /\ \A j \in 1..Len(is) :
          LET e == is[j] IN
          /\ e.by = "install" => e.cmd.prog = InstallProg
          /\ e.by = "stage" => e.cmd = Mkdir(RemoteModulePath)
          /\ e.by = "run" => e.cmd.prog = RunProg
          /\ e.by = "visit" =>
                IsPrefix(RemoteModulePath \o config.ModulesPaths[e.idx], EventPath(e))
          /\ Rank(e) >= 2 => \E i \in 1..(j - 1) : is[i].by = "stage"
          /\ e.by = "run" =>
                \A k \in 1..n :
                    \E i \in 1..(j - 1) : is[i].by = "visit" /\ is[i].idx = k

\* a complete successful run with the install step and two different module paths
C4_Witness ==
    /\ ProvisionReturned /\ ret = Nil
    /\ ~config.SkipInstall
    /\ Len(config.ModulesPaths) = 2
    /\ config.ModulesPaths[1] # config.ModulesPaths[2]
    /\ Issues[Len(Issues)].by = "run"

\* C5: when a step of Provision fails, no remote request is issued after
\* the failure, and Provision returns a failure that names the step.
C5_FailureHalts ==
    \A i \in 1..Len(remote) :
        FailedAt(i) =>
            /\ i = Len(remote)
            /\ ProvisionReturned =>
                  (ret # Nil /\ ret[1] = T(StepText(RequestOf(i).by)))

\* C6: Prepare of a decoded configuration returns nil when every module path
\* is a directory, and otherwise one error listing the bad paths, one entry
\* per bad path, in configured order.
C6_PrepareListsAll ==
    (pc = "prepared" /\ ret # <<X(DecodeCause)>>) =>
        LET bad == SelectSeq(config.ModulesPaths, LAMBDA q : Kind(q) # "dir")
        IN  IF bad = <<>> THEN ret = Nil
            ELSE /\ Len(ret) = 1
                 /\ DOMAIN ret[1] = {"multi"}
                 /\ Len(ret[1].multi) = Len(bad)
                 /\ \A i \in 1..Len(bad) : Mentions(ret[1].multi[i], bad[i])

\* Prepare has rejected a configuration with two bad paths, a missing one
\* and a file
C6_Witness ==
    /\ pc = "prepared"
    /\ config.ModulesPaths = << <<"missing">>, <<"notes.txt">> >>
    /\ Len(ret) = 1
    /\ Len(ret[1].multi) = 2

----------------------------------------------------------------------------
(* Claims about UploadLocalDirectory *)

ChildPaths(q) == [i \in 1..Len(Names(q)) |-> Append(q, Names(q)[i])]

\* the entries of the trees at the given paths, parents before children
RECURSIVE PreOrder(_)
PreOrder(ps) ==
    IF ps = <<>> THEN <<>>
    ELSE <<Head(ps)>> \o PreOrder(ChildPaths(Head(ps))) \o PreOrder(Tail(ps))

\* one create-directory per directory, one upload of the contents per file
Expected(root) ==
    LET es == PreOrder(<<root>>)
    IN  [i \in 1..Len(es) |->
            IF Kind(es[i]) = "dir"
            THEN <<"mkdir", RemoteModulePath \o es[i]>>
            ELSE <<"upload", RemoteModulePath \o es[i], Content(es[i])>>]

\* the requests made while uploading the k-th module path
VisitEvents(k) ==
    SelectSeq(remote, LAMBDA e : e.op # "Exit" /\ e.by = "visit" /\ e.idx = k)

Requests(k) ==
    LET es == VisitEvents(k)
    IN  [i \in 1..Len(es) |->
            IF es[i].op = "Start"
            THEN <<"mkdir", es[i].cmd.mkdir>>
            ELSE <<"upload", es[i].path, es[i].data>>]

\* the upload of the k-th module path has returned
UploadReturned(k) == modIdx > k \/ (modIdx = k /\ ProvisionReturned)

RemoteFailure(k) ==
    \E i \in 1..Len(remote) :
        FailedAt(i) /\ RequestOf(i).by = "visit" /\ RequestOf(i).idx = k

LocalFailure(k) ==
    \E i \in 1..Len(local) : local[i].idx = k /\ ~local[i].ok

Count(seq, Test(_)) == Cardinality({i \in 1..Len(seq) : Test(seq[i])})

\* the tree root/{a.txt, sub/b.txt}: one create-directory for root/sub, two uploads
RootTreeRequests(rs) ==
    /\ Count(rs, LAMBDA r : r = <<"mkdir", RemoteModulePath \o <<"root", "sub">> >>) = 1
    /\ Count(rs, LAMBDA r : r[1] = "upload") = 2

\* the requests are one per entry of the tree at root, each at its remote path
OnePerEntry(rs, root) ==
    /\ rs = Expected(root)
    /\ root = <<"root">> => RootTreeRequests(rs)

\* C8: when no remote request fails, a completed upload of a module path
\* has made exactly one request per entry of the tree (create-directory for
\* a directory, upload of the contents for a file) at the module root joined
\* with the entry's path.
C8_OneRequestPerEntry ==
    \A k \in 1..Len(config.ModulesPaths) :
        (modIdx > k /\ ~RemoteFailure(k)) =>
            OnePerEntry(Requests(k), config.ModulesPaths[k])

\* the same for the uploads, completed or not, in which moreover no local
\* open or directory read failed
OneRequestPerReadableEntry ==
    \A k \in 1..Len(config.ModulesPaths) :
        (UploadReturned(k) /\ ~RemoteFailure(k) /\ ~LocalFailure(k)) =>
            OnePerEntry(Requests(k), config.ModulesPaths[k])

\* the tree root/{a.txt, sub/b.txt} has been uploaded without any failure
C8_Witness ==
    \E k \in 1..Len(config.ModulesPaths) :
        /\ config.ModulesPaths[k] = <<"root">>
        /\ modIdx > k
        /\ ~RemoteFailure(k) /\ ~LocalFailure(k)
        /\ Len(Requests(k)) = 4

\* C9: when the upload of a file fails, no request is made afterwards and
\* the failure returned names the path of that file.
C9_UploadFailureNamesEntry ==
    \A i \in 1..Len(remote) :
        (remote[i].op = "Upload" /\ ~remote[i].ok) =>
            /\ i = Len(remote)
            /\ ProvisionReturned
            /\ \/ Mentions(ret, remote[i].path)
               \/ Mentions(ret, SubSeq(remote[i].path, Len(RemoteModulePath) + 1,
                                       Len(remote[i].path)))

\* C10: when the create-directory request of a directory entry fails (it
\* cannot be started, or mkdir exits with a non-zero status), the walk does
\* not go on, no request is made afterwards, and the failure returned names
\* the path of that directory.
C10_MkdirFailureAborts ==
    \A i \in 1..Len(remote) :
        (FailedAt(i) /\ RequestOf(i).op = "Start" /\ RequestOf(i).by = "visit") =>
            /\ i = Len(remote)
            /\ pc \in {"mkdir_wait", "mkdir_ret", "prov_done"}
            /\ ProvisionReturned =>
                  /\ ret # Nil
                  /\ Mentions(ret, RequestOf(i).cmd.mkdir)

----------------------------------------------------------------------------
(* executeCommand under fair scheduling *)

\* The Go scheduler runs every goroutine that can take a step: the readers,
\* the waiter and the calling goroutine each keep going while they are not
\* blocked, and a select case that stays ready is eventually chosen.  The
\* remote process is under no obligation: it may stop writing and it may
\* never exit.
FairExec ==
    /\ WF_vars(ExecStart)
    /\ WF_vars(ExecSpawn)
    /\ \A s \in Streams : WF_vars(LoopRecv(s))
    /\ WF_vars(LoopExit)
    /\ WF_vars(DrainStdout)
    /\ WF_vars(DrainStderr)
    /\ \A s \in Streams : WF_vars(ReaderRead(s))
    /\ \A s \in Streams : WF_vars(ReaderClose(s))
    /\ WF_vars(WaiterWait)
    /\ WF_vars(WaiterSend)
    /\ WF_vars(WaiterCloseErr)
    /\ WF_vars(WaiterCloseOut)

SpecExecFair == SpecExec /\ FairExec

\* the lines of stream s that the command has finished: written up to and
\* including their delimiter
CompleteLines(s) ==
    SelectSeq(WrittenLines(s), LAMBDA l : l[Len(l)] = Delim)

\* a command writes at most this many lines (the longest chunk holds two)
MaxLines == 2 * MaxChunks

\* the k-th line written to s has been given to the sink
Delivered(s, k) ==
    /\ Len(Received(s)) >= k
    /\ TrimSpace(Received(s)[k]) = TrimSpace(WrittenLines(s)[k])

\* C11: under fair scheduling every complete line the command writes to
\* stdout or stderr is eventually given to the sink, whether or not the
\* command ever exits.
C11_LinesEventuallyDelivered ==
    \A s \in Streams : \A k \in 1..MaxLines :
        (Len(CompleteLines(s)) >= k) ~> Delivered(s, k)

\* the same, except in the runs where executeCommand returns a failure
StreamedUnlessFailed ==
    \A s \in Streams : \A k \in 1..MaxLines :
        (Len(CompleteLines(s)) >= k) ~> (Delivered(s, k) \/ (Returned /\ ret # Nil))

\* while the command is running and has not exited, a complete line has
\* reached the sink
StreamedWhileRunning ==
    /\ proc = "running"
    /\ \E s \in Streams : Len(CompleteLines(s)) >= 1 /\ Delivered(s, 1)

----------------------------------------------------------------------------
(* Claims about the configuration flags of Provision *)

\* the command line begins with the elevation prefix "sudo "
Elevated(cmd) == cmd.sudo

\* the install request is made exactly when skip_install is false, first and
\* once; install and run command lines are elevated exactly when
\* prevent_sudo is false
FlagsRespected ==
    LET is == Issues IN
    /\ Count(is, LAMBDA e : e.by = "install") <= IF config.SkipInstall THEN 0 ELSE 1
    /\ ProvisionReturned => is # <<>>
    /\ is # <<>> => (is[1].by = "install" <=> ~config.SkipInstall)
    /\ \A j \in 1..Len(is) :
          /\ is[j].by = "install" =>
                is[j].cmd = Command(~config.PreventSudo, InstallProg)
          /\ is[j].by = "run" =>
                is[j].cmd = Command(~config.PreventSudo, RunProg)
          /\ is[j].by \in {"install", "run"} =>
                (Elevated(is[j].cmd) <=> ~config.PreventSudo)

\* {modules_paths: ["modules"], prevent_sudo: false, skip_install: true};
\* modules/ holds the one file init.pp
ScenarioConfig ==
    [ModulesPaths |-> <<DefaultModulesPath>>, PreventSudo |-> FALSE,
     SkipInstall |-> TRUE]

\* Provision has returned and its run command had exited with status 0
RunExitedZero ==
    /\ ProvisionReturned
    /\ Len(remote) >= 2
    /\ remote[Len(remote)] = Exited(0)
    /\ remote[Len(remote) - 1].by = "run"

\* what was asked of the communicator, in order
Asked ==
    LET is == Issues
    IN  [i \in 1..Len(is) |->
            IF is[i].op = "Start" THEN <<is[i].by, is[i].cmd>>
            ELSE <<"upload", is[i].path, is[i].data>>]

\* no install; module root, then the tree modules/{init.pp}, then the
\* elevated run command; success
ScenarioOutcome ==
    /\ Asked = << <<"stage", Mkdir(RemoteModulePath)>>,
                  <<"visit", Mkdir(RemoteModulePath \o <<"modules">>)>>,
                  <<"upload", RemoteModulePath \o <<"modules", "init.pp">>, <<"I">> >>,
                  <<"run", Command(TRUE, RunProg)>> >>
    /\ Elevated(Asked[4][2])
    /\ ret = Nil

\* C12 as stated: the flags are respected, and in the scenario a run whose
\* configuration command exited 0 made exactly the scenario's requests and
\* returned success.
C12_FlagsAndScenario ==
    /\ FlagsRespected
    /\ (config = ScenarioConfig /\ RunExitedZero) => ScenarioOutcome

\* the same, for a run in which no local directory read failed
FlagsAndReadableScenario ==
    /\ FlagsRespected
    /\ (config = ScenarioConfig /\ RunExitedZero /\ ~LocalFailure(1)) =>
          ScenarioOutcome

\* the scenario has run to a successful end
C12_Witness ==
    /\ config = ScenarioConfig
    /\ RunExitedZero
    /\ ~LocalFailure(1)
    /\ ScenarioOutcome

----------------------------------------------------------------------------
(* Termination of executeCommand *)

\* what the goroutine running executeCommand is blocked on: the select waits
\* on both line channels and the exit channel, each range loop on one channel
WaitsOn ==
    IF pc = "exec_loop" THEN Streams \cup {"exit"}
    ELSE IF pc = "exec_drainOut" THEN {"stdout"}
    ELSE IF pc = "exec_drainErr" THEN {"stderr"}
    ELSE {}

\* the remote process is inside a Write on the pipe of s
BlockedWriting(s) == proc = "running" /\ pipe[s] # <<>>

\* the process is never blocked writing to a stream the runner does not serve
NoStarvedWriter ==
    \A s \in Streams : (BlockedWriting(s) /\ WaitsOn # {}) => s \in WaitsOn

\* C13: under fair scheduling, once the started command has terminated
\* executeCommand returns, whatever the interleaving of writes and exit; and
\* the process is never blocked writing to one stream while executeCommand
\* waits only on the other stream or only on the exit channel.
C13_ReturnsAndNeverStarves ==
    /\ (proc = "exited") ~> Returned
    /\ [](NoStarvedWriter)

\* executeCommand has returned after a command that wrote to both streams
\* terminated, the sink having received from both
C13_Witness ==
    /\ Returned
    /\ proc = "exited"
    /\ \A s \in Streams : written[s] # <<>> /\ Received(s) # <<>>

\* the deadlock-prone moment, which the select survives: the process blocked
\* writing to stderr while the stdout reader is blocked sending a line
WriterBlockedWhileOtherPending ==
    /\ pc = "exec_loop"
    /\ BlockedWriting("stderr")
    /\ rpc["stdout"] = "send"

----------------------------------------------------------------------------
(* What the sink is given for a line *)

\* C14: every message given to the sink, by the select loop or by the drain
\* loops, is the line it was received for with its trailing whitespace (the
\* delimiter included) removed.
C14_ForwardedWithoutTrailingSpace ==
    \A s \in Streams : \A k \in 1..Len(Received(s)) :
        Received(s)[k] = TrimRight(WrittenLines(s)[k])

\* the same with strings.TrimSpace, which also removes leading whitespace,
\* in place of the removal of trailing whitespace
ForwardedTrimSpace ==
    \A s \in Streams : \A k \in 1..Len(Received(s)) :
        Received(s)[k] = TrimSpace(WrittenLines(s)[k])

\* the same for the messages of the select loop alone
LoopForwardsTrimSpace ==
    pc = "exec_loop" =>
        \A s \in Streams : \A k \in 1..Len(Received(s)) :
            Received(s)[k] = TrimSpace(WrittenLines(s)[k])

----------------------------------------------------------------------------
(* Writes to the sink *)

\* Ui.Message is called from the select loop and the two range loops only,
\* all three in the goroutine whose position is pc
SinkWriters == {"exec_loop", "exec_drainOut", "exec_drainErr"}

\* the message is the next whole line of stream s, which its reader holds
\* ready to send
CarriesNextLineOf(s, m) ==
    /\ m.src = s
    /\ m.ok
    /\ rpc[s] = "send"
    /\ Len(WrittenLines(s)) > Len(Received(s))
    /\ rline[s] = WrittenLines(s)[Len(Received(s)) + 1]
    /\ TrimSpace(m.text) = TrimSpace(rline[s])

\* a step of a running call that writes to the sink writes one message, from
\* the goroutine of executeCommand
OneWriteAtATime ==
    /\ pc \in SinkWriters
    /\ Len(sink') = Len(sink) + 1
    /\ SubSeq(sink', 1, Len(sink)) = sink

\* C15: the sink is written one message at a time, by one goroutine, and
\* each message carries exactly one whole line of exactly one stream.
C15_LineGranularWrites ==
    [][(sink' # sink /\ pc # "exec_call") =>
          /\ OneWriteAtATime
          /\ \E s \in Streams : CarriesNextLineOf(s, sink'[Len(sink')])]_vars

\* the same, apart from the messages for receives from a closed channel
LineGranularOrClosed ==
    [][(sink' # sink /\ pc # "exec_call") =>
          /\ OneWriteAtATime
          /\ \/ ~sink'[Len(sink')].ok
             \/ \E s \in Streams : CarriesNextLineOf(s, sink'[Len(sink')])]_vars

----------------------------------------------------------------------------
(* The life of a RemoteCmd *)

Starts == Count(cmdCalls, LAMBDA c : c \in {"Start", "StartFailed"})
Waits  == Count(cmdCalls, LAMBDA c : c = "Wait")

\* executeCommand or CreateRemoteDirectory has returned
CallReturned == pc \in {"exec_ret", "mkdir_ret"}

\* C16: in every run of executeCommand and of CreateRemoteDirectory
\* comm.Start is called exactly once, the first call on the command;
\* cmd.Wait is called exactly once when Start succeeded and never when it
\* failed; and cmd.ExitStatus is read only after Wait has returned.
C16_StartedOnceWaitedOnce ==
    /\ Starts <= 1
    /\ Waits <= 1
    /\ cmdCalls # <<>> => cmdCalls[1] \in {"Start", "StartFailed"}
    /\ (cmdCalls # <<>> /\ cmdCalls[1] = "StartFailed") => Len(cmdCalls) = 1
    /\ \A i \in 1..Len(cmdCalls) :
          cmdCalls[i] = "ExitStatus" =>
              \E j \in 1..(i - 1) : cmdCalls[j] = "Wait"
    /\ CallReturned =>
          /\ Starts = 1
          /\ Waits = IF cmdCalls[1] = "Start" THEN 1 ELSE 0

\* an executeCommand whose command started has returned: started, waited on
\* and its status read, in that order
C16_Witness ==
    /\ pc = "exec_ret"
    /\ cmdCalls = <<"Start", "Wait", "ExitStatus">>

\* a CreateRemoteDirectory whose Start failed has returned without waiting
MkdirStartFailedNoWait ==
    /\ pc = "mkdir_ret"
    /\ cmdCalls = <<"StartFailed">>

----------------------------------------------------------------------------
(* The diagnostic log of executeCommand *)

\* a log.Printf record carries the text
LoggedLine(text) ==
    \E j \in 1..Len(dlog) : "line" \in DOMAIN dlog[j] /\ dlog[j].line = text

\* the exit status of the command is in the log once it was received
StatusLogged ==
    (Returned /\ Started) =>
        \E j \in 1..Len(dlog) :
            "exited" \in DOMAIN dlog[j] /\ dlog[j].exited = exitStatus

\* C17: every line executeCommand gives to the sink is also recorded in the
\* diagnostic log, and so is the final exit status of the command.
C17_LinesAndStatusLogged ==
    /\ \A i \in 1..Len(sink) : LoggedLine(sink[i].text)
    /\ StatusLogged

----------------------------------------------------------------------------
(* The sink receives the command's output and nothing else *)

\* the texts the sink was given on behalf of stream s, whatever the receive
FromStream(s) ==
    LET ms == SelectSeq(sink, LAMBDA m : m.src = s)
    IN  [i \in 1..Len(ms) |-> ms[i].text]

\* the messages are, line for line, the first lines written (up to trimming)
PrefixOfWritten(ms, s) ==
    /\ Len(ms) <= Len(WrittenLines(s))
    /\ \A k \in 1..Len(ms) : TrimSpace(ms[k]) = TrimSpace(WrittenLines(s)[k])

\* C18: the messages given to the sink for a stream are a prefix of the
\* lines the command wrote to that stream: no empty or repeated message
\* without a written line behind it, also after the line channels are closed
\* and before the select loop has taken the exit status.
C18_OnlyWrittenLines ==
    \A s \in Streams : PrefixOfWritten(FromStream(s), s)

\* the same for the messages made for values actually received
ReceivedOnlyWrittenLines ==
    \A s \in Streams : PrefixOfWritten(Received(s), s)

----------------------------------------------------------------------------
(* The goroutines executeCommand leaves behind *)

\* the waiter has run to its end, and each reader has closed its channel
\* and returned
TasksFinished ==
    /\ wpc = "done"
    /\ \A s \in Streams : rpc[s] = "done"

\* C19: after executeCommand has returned, with nil or with a failure, the
\* goroutines it started all come to their end under fair scheduling: none
\* stays blocked, and no reader is left sending a line nobody receives.
C19_NoTaskLeftBlocked ==
    (Returned /\ Started) ~> TasksFinished

\* at a successful return the goroutines have already finished
FinishedAtSuccess ==
    (Returned /\ Started /\ ret = Nil) => TasksFinished

\* executeCommand has returned a failure while a reader is blocked sending
ReaderLeftSending ==
    /\ Returned /\ Started /\ ret # Nil
    /\ \E s \in Streams : rpc[s] = "send"

====
